---- MODULE Spec2Model ----
(***************************************************************************)
(* A model of varsens/saltelli.py: the Sample, Objective and Varsens       *)
(* classes (Saltelli's variance-based sensitivity analysis).               *)
(*                                                                         *)
(* Conventions.  numpy arrays are sequences; the code's 0-based index i is *)
(* the model's index i+1.  A sample matrix is a sequence of rows, each a   *)
(* sequence of k integers (the integer stands for the float it codes).     *)
(* An objective value is a rational <<num, den>> with den > 0, or one of   *)
(* the IEEE specials <<0,0>> (nan), <<1,0>> (+inf), <<-1,0>> (-inf).       *)
(***************************************************************************)
EXTENDS Integers, Sequences, FiniteSets, TLC

\* ------------------------------------------------------------------ bounds
\* The largest number of parameters k, of draws n, and the widest objective
\* value m of the model
MaxK == 2
MaxN == 3
MaxM == 2

\* ------------------------------------------------------- sequence helpers
RECURSIVE Flatten(_)
\* numpy.vstack of a list of 2-D blocks with equal widths: the rows in order
Flatten(ss) == IF ss = <<>> THEN <<>> ELSE Head(ss) \o Flatten(Tail(ss))

\* x[a:b] of numpy (0-based, half open, clipped to the length) as a sequence
Slice(x, a, b) ==
    LET hi == IF b > Len(x) THEN Len(x) ELSE b
    IN  IF a >= hi THEN <<>> ELSE [i \in 1..(hi - a) |-> x[a + i]]

CeilDiv(a, b) == (a + b - 1) \div b

\* ---------------------------------------------------- external collaborators
\* ghalton.Halton(k).get(): point number i of the stream (0-based), column c.
\* The generator is a library; the model keeps only that every coordinate of
\* every point is determined by (i, c), and codes it as an integer.
HaltonPoint(i, c) == 10 * i + c

\* seq.get(count) after `burn` points were taken: the next `count` points
HaltonGet(burn, count, k) ==
    [r \in 1..count |-> [c \in 1..k |-> HaltonPoint(burn + r - 1, c)]]

\* The scaling functions a caller may pass: "none" is scaling=None, "id" is
\* lambda x: x (returns its argument, the same array object), "lin" is a
\* linear map that returns a new array.
Scalings == {"none", "id", "lin"}

ScaleValue(s, v) == IF s = "lin" THEN 2 * v + 1 ELSE v

ApplyScaling(s, M) == [r \in DOMAIN M |-> [c \in DOMAIN M[r] |-> ScaleValue(s, M[r][c])]]

\* numpy.random.seed(1); numpy.random.shuffle(M_2): the generator is reseeded
\* with a fixed seed, so the row permutation depends on the row count alone.
\* The Mersenne Twister's output is a library matter; the model fixes one
\* permutation per n (a rotation), the same on every call.
ShufflePerm(n) == [i \in 1..n |-> (i % n) + 1]

Shuffle(M) == [i \in DOMAIN M |-> M[ShufflePerm(Len(M))[i]]]

\* ------------------------------------------------------------------ Sample
NoMatrix == <<>>

\* generate_N_j with its two arguments exchanged: k copies of M_1, copy i
\* with column i overwritten by column i of M_2.  Not what the code does.
generate_N_j_swapped(k, M_1, M_2) ==
    [i \in 1..k |-> [r \in DOMAIN M_2 |-> [c \in 1..k |->
        IF c = i THEN M_2[r][c] ELSE M_1[r][c]]]]

\* Sample.generate_N_j(M_1, M_2): k copies of M_2, copy i with column i
\* overwritten by column i of M_1
generate_N_j(k, M_1, M_2) ==
    [i \in 1..k |-> [r \in DOMAIN M_2 |-> [c \in 1..k |->
        IF c = i THEN M_1[r][c] ELSE M_2[r][c]]]]

\* A Sample object whose matrices are not (yet) set.  source records the
\* branch of __init__ that set them: "generated", "raw", "unscaled" (a
\* (2n,k) file) or "flattened" (a (2n(1+k),k) file); burn the number of
\* points taken from the Halton stream before the design.
BlankSample(k, n, scaling, verbose) ==
    [k |-> k, n |-> n, scaling |-> scaling, verbose |-> verbose,
     built |-> FALSE, burn |-> 0, source |-> "",
     M_1 |-> NoMatrix, M_2 |-> NoMatrix, N_j |-> <<>>, N_nj |-> <<>>]

NoSample == BlankSample(0, 0, "none", FALSE)

\* Sample.__init__, lines 86-111: from the unscaled design x (2n rows) to the
\* four matrices; `raw` tells whether x is the caller's raw array
DeriveSample(self, x, raw) ==
    LET sc  == IF self.scaling = "none" THEN "id" ELSE self.scaling
        M1  == ApplyScaling(sc, Slice(x, 0, self.n))
        M2u == ApplyScaling(sc, Slice(x, self.n, 2 * self.n))
        M2  == IF raw THEN Shuffle(M2u) ELSE M2u
    IN  [self EXCEPT !.scaling = sc, !.built = TRUE,
                     !.source = IF raw THEN "raw"
                                ELSE IF self.burn > 0 THEN "generated" ELSE "unscaled",
                     !.M_1 = M1, !.M_2 = M2,
                     !.N_j  = generate_N_j(self.k, M1, M2),
                     !.N_nj = generate_N_j(self.k, M2, M1)]

\* flat() with the N_nj blocks before the N_j blocks.  Not what the code does.
SampleFlatSwapped(self) ==
    self.M_1 \o self.M_2 \o Flatten(self.N_nj) \o Flatten(self.N_j)

\* Sample.flat(), lines 135-161
SampleFlat(self) ==
    self.M_1 \o self.M_2 \o Flatten(self.N_j) \o Flatten(self.N_nj)

\* ------------------------------------------------------------- text files
\* numpy.savetxt writes every number with the format '%.18e' and numpy.loadtxt
\* parses it back.  A token is the sign and the decimal digits of the number.
RECURSIVE Digits(_)
Digits(v) == IF v < 10 THEN <<v>> ELSE Digits(v \div 10) \o <<v % 10>>

FormatNum(v) == [neg |-> v < 0, digits |-> Digits(IF v < 0 THEN -v ELSE v)]

RECURSIVE DigitsValue(_)
DigitsValue(d) ==
    IF d = <<>> THEN 0 ELSE 10 * DigitsValue(SubSeq(d, 1, Len(d) - 1)) + d[Len(d)]

ParseNum(t) == IF t.neg THEN -DigitsValue(t.digits) ELSE DigitsValue(t.digits)

\* numpy.savetxt(name, rows): one line per row, one token per column
SaveTxt(rows) == [r \in DOMAIN rows |-> [c \in DOMAIN rows[r] |-> FormatNum(rows[r][c])]]

\* numpy.loadtxt(file): the parsed table, squeezed: a file of one column comes
\* back as a 1-D array over its rows, a file of one line as a 1-D array over
\* its columns, a file of one number as a 0-d array.  nd is the number of
\* dimensions of the result.
Squeeze(rows) ==
    LET nr   == Len(rows)
        nc   == Len(rows[1])
    IN  IF nr = 1 /\ nc = 1 THEN [nd |-> 0, v |-> <<<<rows[1][1]>>>>]
        ELSE IF nr = 1      THEN [nd |-> 1, v |-> <<rows[1]>>]
        ELSE IF nc = 1      THEN [nd |-> 1, v |-> <<[r \in 1..nr |-> rows[r][1]]>>]
        ELSE                     [nd |-> 2, v |-> rows]

LoadTxt(file) ==
    Squeeze([r \in DOMAIN file |-> [c \in DOMAIN file[r] |-> ParseNum(file[r][c])]])

\* numpy.atleast_2d, as numpy.vstack applies it to each array of its list: a
\* 0-d array becomes (1,1), a 1-D array of length L becomes (1,L).  LoadTxt
\* keeps every result in that form already (field v).
AtLeast2d(a) == a.v

\* numpy.vstack(list): rows of all arrays in order; the arrays must agree in
\* their number of columns, else ValueError
VStackOk(arrays) ==
    \A i, j \in DOMAIN arrays : Len(AtLeast2d(arrays[i])[1]) = Len(AtLeast2d(arrays[j])[1])

VStack(arrays) == Flatten([i \in DOMAIN arrays |-> AtLeast2d(arrays[i])])

\* File names: <<prefix, 0>> is "<prefix><postfix>", <<prefix, i>> with i > 0
\* is "<prefix>_<i><postfix>"
FileName(prefix, i) == <<prefix, i>>

NoFiles == [f \in {} |-> <<>>]

\* Sample.export, lines 176-194: the files written, as a function from file
\* name to content.  A blocksize above len(f), float("inf") included, is
\* replaced by len(f).
ExportFiles(f, prefix, blocksize) ==
    LET bs     == IF blocksize > Len(f) THEN Len(f) ELSE blocksize
        nFiles == CeilDiv(Len(f), bs)
    IN  IF nFiles = 1
        THEN [name \in {FileName(prefix, 0)} |-> SaveTxt(f)]
        ELSE [name \in {FileName(prefix, b + 1) : b \in 0..(nFiles - 1)} |->
                 SaveTxt(Slice(f, (name[2] - 1) * bs, name[2] * bs))]

\* Sample.load, lines 198-211: the list FILES.  loadFile = "" is None and
\* takes precedence when given; nFiles = 0 is None.
LoadFileList(loadFile, prefix, nFiles, offset) ==
    IF loadFile # "" THEN <<FileName(loadFile, 0)>>
    ELSE [i \in 1..nFiles |-> FileName(prefix, offset + i - 1)]

\* What the message of an exception says about shapes: the shapes it gives
\* as found and the shapes it gives as required, each a tuple of numbers.
\* NoMsg is a message that names no shape (and the message of no exception).
NoMsg == [actual |-> <<>>, expected |-> <<>>]

\* Sample.load: the outcome [err, msg, self, x] of loading into the object
\* self.  err = "" when no exception was raised.  Line 249 puts x.shape and
\* the two accepted shapes in its message.
SampleLoad(self, files, loadFile, prefix, nFiles, offset) ==
    LET FILES  == LoadFileList(loadFile, prefix, nFiles, offset)
        fail(e) == [err |-> e, msg |-> NoMsg, self |-> self, x |-> <<>>]
    IN  IF loadFile = "" /\ prefix = "" THEN fail("NeedLoadFileOrPrefix")
        ELSE IF loadFile = "" /\ nFiles = 0 THEN fail("NeedNFiles")
        ELSE IF \E i \in DOMAIN FILES : FILES[i] \notin DOMAIN files
             THEN fail("CannotFindInputFile")
        ELSE LET sample == [i \in DOMAIN FILES |-> LoadTxt(files[FILES[i]])]
             IN  IF ~VStackOk(sample) THEN fail("ValueError")
                 ELSE LET x    == VStack(sample)
                          rows == Len(x)
                          cols == Len(x[1])
                          n    == self.n
                          k    == self.k
                      IN  IF rows = 2 * n /\ cols = k
                          THEN IF self.scaling = "none"
                               THEN fail("LoadUnscaledNeedsScaling")
                               ELSE [err |-> "", msg |-> NoMsg, self |-> self, x |-> x]
                          ELSE IF rows = 2 * n * (1 + k) /\ cols = k
                          THEN [err |-> "", msg |-> NoMsg, x |-> x,
                                self |-> [self EXCEPT
                                   !.built = TRUE, !.source = "flattened",
                                   !.M_1  = Slice(x, 0, n),
                                   !.M_2  = Slice(x, n, 2 * n),
                                   !.N_j  = [i \in 1..k |->
                                       Slice(x, 2 * n + (i - 1) * n, 2 * n + i * n)],
                                   !.N_nj = [i \in 1..k |->
                                       Slice(x, 2 * n + k * n + (i - 1) * n,
                                                2 * n + k * n + i * n)]]]
                          ELSE [fail("LoadedSampleShape") EXCEPT
                                   !.msg = [actual   |-> <<<<rows, cols>>>>,
                                            expected |-> <<<<2 * n, k>>,
                                                           <<2 * n * (1 + k), k>>>>]]

\* Sample.__init__ with loadArgs, lines 74-77 and 86-111: the outcome
\* [err, self].  A flattened file returns right after load; a (2n,k) file
\* goes on to scaling and the resample derivation, without the shuffle.
SampleInitLoad(k, n, scaling, verbose, files, loadFile, prefix, nFiles, offset) ==
    LET r == SampleLoad(BlankSample(k, n, scaling, verbose), files,
                        loadFile, prefix, nFiles, offset)
    IN  IF r.err # "" THEN [err |-> r.err, msg |-> r.msg, self |-> NoSample]
        ELSE IF Len(r.x) = 2 * n * (1 + k) THEN [err |-> "", msg |-> NoMsg, self |-> r.self]
        ELSE [err |-> "", msg |-> NoMsg, self |-> DeriveSample(r.self, r.x, FALSE)]

\* Sample.__init__ with raw, lines 69-73 and 86-111: the outcome [err, self]
SampleInitRaw(k, n, scaling, verbose, x) ==
    IF ~(Len(x) = 2 * n /\ Len(x[1]) = k)
    THEN [err |-> "RawSampleDimensions", msg |-> NoMsg, self |-> NoSample]   \* line 73
    ELSE [err |-> "", msg |-> NoMsg,
          self |-> DeriveSample(BlankSample(k, n, scaling, verbose), x, TRUE)]

\* Sample.__init__ generating, lines 78-84 and 86-111: the outcome [err, self]
SampleInitGenerate(k, n, scaling, discard, verbose) ==
    IF scaling = "none"
    THEN [err |-> "GenerateNeedsScaling", msg |-> NoMsg, self |-> NoSample]
    ELSE LET burn == 20 * k + discard
             self == [BlankSample(k, n, scaling, verbose) EXCEPT !.burn = burn]
         IN  [err |-> "", msg |-> NoMsg,
              self |-> DeriveSample(self, HaltonGet(burn, 2 * n, k), FALSE)]

\* The caller's raw array after Sample.__init__: with the identity scaling
\* (given, or the default of line 88) M_2 is a view of rows n..2n-1 of raw, and
\* numpy.random.shuffle(self.M_2) shuffles in place.
RawAfterInit(k, n, scaling, x) ==
    IF Len(x) = 2 * n /\ Len(x[1]) = k /\ scaling \in {"none", "id"}
    THEN Slice(x, 0, n) \o Shuffle(Slice(x, n, 2 * n))
    ELSE x

\* ------------------------------------------------------ float arithmetic
\* An objective value: the rational <<num, den>> in lowest terms with
\* den > 0, or nan = <<0,0>>, +inf = <<1,0>>, -inf = <<-1,0>>.  The operators
\* follow IEEE 754 as numpy applies it to arrays: no exception is raised, a
\* division by zero gives inf or nan.  Rounding is not modelled.
NaN    == <<0, 0>>
PosInf == <<1, 0>>
NegInf == <<-1, 0>>

Abs(i) == IF i < 0 THEN -i ELSE i
Sign(i) == IF i < 0 THEN -1 ELSE IF i > 0 THEN 1 ELSE 0

RECURSIVE GCD(_, _)
GCD(a, b) == IF b = 0 THEN a ELSE GCD(b, a % b)

\* <<num, den>> in lowest terms, den > 0; a zero denominator gives a special
RNorm(num, den) ==
    IF den = 0 THEN <<Sign(num), 0>>
    ELSE LET g == GCD(Abs(num), Abs(den))
         IN  <<(Sign(den) * num) \div g, Abs(den) \div g>>

R(i) == <<i, 1>>
IsNaN(x) == x = NaN
IsFinite(x) == x[2] # 0

RAdd(x, y) ==
    IF IsNaN(x) \/ IsNaN(y) THEN NaN
    ELSE IF ~IsFinite(x) /\ ~IsFinite(y) THEN (IF x = y THEN x ELSE NaN)
    ELSE IF ~IsFinite(x) THEN x
    ELSE IF ~IsFinite(y) THEN y
    ELSE RNorm(x[1] * y[2] + y[1] * x[2], x[2] * y[2])

RNeg(x) == <<-x[1], x[2]>>
RSub(x, y) == RAdd(x, RNeg(y))

RMul(x, y) ==
    IF IsNaN(x) \/ IsNaN(y) THEN NaN
    ELSE IF ~IsFinite(x) \/ ~IsFinite(y)
         THEN <<Sign(x[1]) * Sign(y[1]), 0>>      \* inf * 0 = nan
    ELSE RNorm(x[1] * y[1], x[2] * y[2])

RDiv(x, y) ==
    IF IsNaN(x) \/ IsNaN(y) THEN NaN
    ELSE IF ~IsFinite(x) THEN (IF ~IsFinite(y) THEN NaN
                               ELSE <<x[1] * (IF y[1] < 0 THEN -1 ELSE 1), 0>>)
    ELSE IF ~IsFinite(y) THEN R(0)
    ELSE RNorm(x[1] * y[2], x[2] * y[1])          \* x / 0 = inf, 0 / 0 = nan

RECURSIVE RSum(_)
RSum(xs) == IF xs = <<>> THEN R(0) ELSE RAdd(RSum(SubSeq(xs, 1, Len(xs) - 1)), xs[Len(xs)])

\* numpy.delete(a, idx, axis): the sequence without the positions in idx
RECURSIVE Delete(_, _)
Delete(xs, idx) ==
    IF xs = <<>> THEN <<>>
    ELSE LET init == Delete(SubSeq(xs, 1, Len(xs) - 1), idx)
         IN  IF Len(xs) \in idx THEN init ELSE Append(init, xs[Len(xs)])

\* --------------------------------------------------------------- Objective
\* The objective functions a caller may pass.  A function is [kind, m]: m = 0
\* returns a scalar, m > 0 a list of m values.  Component c of the value
\* at a row x:
\*   "mod"    a small integer computed from every coordinate of x
\*   "const"  the constant 1
\*   "nan"    as "mod", but nan in the last component where x's coordinate
\*            sum is even
\*   "shrink" as "mod", but a list of length 1 from the second call on
\*   "grow"   as "mod", but a list of length m + 1 from the second call on
RECURSIVE SumInts(_)
SumInts(xs) == IF xs = <<>> THEN 0 ELSE xs[1] + SumInts(Tail(xs))

ModValue(x, c) == R((SumInts([j \in DOMAIN x |-> j * x[j]]) + c) % 7)

\* The list (or scalar) the function of kind f.kind returns for x on call
\* number callNo (1-based): [nd, v], nd = 0 for a scalar (v holds the one
\* value), nd = 1 for a list v
FEvalList(f, x, callNo) ==
    LET w   == IF f.m = 0 THEN 1
               ELSE IF f.kind = "shrink" /\ callNo > 1 THEN 1
               ELSE IF f.kind = "grow" /\ callNo > 1 THEN f.m + 1
               ELSE f.m
        val(c) == IF f.kind = "const" THEN R(1)
                  ELSE IF f.kind = "nan" /\ c = w /\ SumInts(x) % 2 = 0 THEN NaN
                  ELSE ModValue(x, c)
    IN  [nd |-> IF f.m = 0 THEN 0 ELSE 1, v |-> [c \in 1..w |-> val(c)]]

\* objective_func(x) on call number callNo.  A function record with a field
\* comp is the scalar function x -> g(x)[comp] of the function g it extends.
FEval(f, x, callNo) ==
    IF "comp" \in DOMAIN f
    THEN [nd |-> 0, v |-> <<FEvalList(f, x, callNo).v[f.comp]>>]
    ELSE FEvalList(f, x, callNo)

NoObjective ==
    [k |-> 0, n |-> 0, m |-> 0, built |-> FALSE, nd |-> 2,
     fM_1 |-> <<>>, fM_2 |-> <<>>, fN_j |-> <<>>, fN_nj |-> <<>>]

\* The evaluation order with M_2 before M_1.  Not what the code does.
EvalOrderSwapped(k, n) ==
    [j \in 1..n |-> <<2, 1, j>>] \o [j \in 1..n |-> <<1, 1, j>>]
    \o Flatten([i \in 1..k |-> [j \in 1..n |-> <<3, i, j>>]])
    \o Flatten([i \in 1..k |-> [j \in 1..n |-> <<4, i, j>>]])

\* Objective.__init__, lines 308-355: the sample rows in the order the loops
\* pass them to objective_func, as <<family, i, j>>: row j of M_1 (family 1),
\* of M_2 (2), of N_j[i] (3), of N_nj[i] (4).  Row 0 of M_1 is the probe of
\* line 308.
EvalOrder(k, n) ==
    [j \in 1..n |-> <<1, 1, j>>] \o [j \in 1..n |-> <<2, 1, j>>]
    \o Flatten([i \in 1..k |-> [j \in 1..n |-> <<3, i, j>>]])
    \o Flatten([i \in 1..k |-> [j \in 1..n |-> <<4, i, j>>]])

SampleRow(sample, t) ==
    IF t[1] = 1 THEN sample.M_1[t[3]]
    ELSE IF t[1] = 2 THEN sample.M_2[t[3]]
    ELSE IF t[1] = 3 THEN sample.N_j[t[2]][t[3]]
    ELSE sample.N_nj[t[2]][t[3]]

\* a[i] = value for a row a[i] of width m: a scalar or a list of length 1 is
\* broadcast, a list of length m is stored, any other length is a ValueError
Fits(out, m) == Len(out.v) = m \/ Len(out.v) = 1

Stored(out, m) == [c \in 1..m |-> IF Len(out.v) = 1 THEN out.v[1] ELSE out.v[c]]

\* Objective.__init__, lines 302-355, generating from a sample: the outcome
\* [err, self, calls]; calls are the rows objective_func was called with
ObjectiveGenerate(k, n, sample, f) ==
    LET order == EvalOrder(k, n)
        total == Len(order)
        arg(t) == SampleRow(sample, order[t])
        out(t) == FEval(f, arg(t), t)
        test  == out(1)
        m     == IF test.nd = 0 THEN 1 ELSE Len(test.v)
        bad   == {t \in 1..total : ~Fits(out(t), m)}
        stop  == IF bad = {} THEN total ELSE CHOOSE t \in bad : \A u \in bad : t <= u
        slot(fam, i, j) == CHOOSE t \in 1..total : order[t] = <<fam, i, j>>
        cell(fam, i, j) == Stored(out(slot(fam, i, j)), m)
    IN  IF bad # {}
        THEN [err |-> "ValueError", msg |-> NoMsg, self |-> NoObjective,
              calls |-> [t \in 1..stop |-> arg(t)]]
        ELSE [err |-> "", msg |-> NoMsg, calls |-> [t \in 1..total |-> arg(t)],
              self |-> [k |-> k, n |-> n, m |-> m, built |-> TRUE, nd |-> 2,
                        fM_1  |-> [j \in 1..n |-> cell(1, 1, j)],
                        fM_2  |-> [j \in 1..n |-> cell(2, 1, j)],
                        fN_j  |-> [i \in 1..k |-> [j \in 1..n |-> cell(3, i, j)]],
                        fN_nj |-> [i \in 1..k |-> [j \in 1..n |-> cell(4, i, j)]]]]

\* Objective.load, lines 474-486: the sample indices found to hold a nan.
\* The masks of all tables are or-ed; the mask has more than one dimension
\* (fN_j[i] is 2-D), so it is cut to its first column.
NanRows(self) ==
    LET isnan(i, c) ==
           \/ IsNaN(self.fM_1[i][c]) \/ IsNaN(self.fM_2[i][c])
           \/ \E p \in DOMAIN self.fN_j :
                 IsNaN(self.fN_j[p][i][c]) \/ IsNaN(self.fN_nj[p][i][c])
    IN  {i \in DOMAIN self.fM_1 : isnan(i, 1)}

\* The pruning with fN_j and fN_nj left untrimmed.  Not what the code does.
PruneOnlyBase(self, nans) ==
    [self EXCEPT !.fM_1 = Delete(self.fM_1, nans),
                 !.fM_2 = Delete(self.fM_2, nans)]

\* Objective.load, lines 488-492: the four numpy.delete calls
Prune(self, nans) ==
    [self EXCEPT !.fM_1  = Delete(self.fM_1, nans),
                 !.fM_2  = Delete(self.fM_2, nans),
                 !.fN_j  = [p \in DOMAIN self.fN_j  |-> Delete(self.fN_j[p], nans)],
                 !.fN_nj = [p \in DOMAIN self.fN_nj |-> Delete(self.fN_nj[p], nans)]]

\* Objective.load, lines 417-418 and 449-495, from the array x = [nd, v]
\* (nd = 1: a 1-D array of len(v) values, v[i] = <<value>>; nd = 2: len(v)
\* rows of m values), every value divided by `scaling`: the outcome
\* [err, self].  A 1-D slice of n values does not broadcast into the (n,1)
\* block fN_j[i] unless n = 1.
ObjectiveLoad(k, n, x, scaling) ==
    LET div(rows) == [r \in DOMAIN rows |->
                         [c \in DOMAIN rows[r] |-> RDiv(rows[r][c], R(scaling))]]
        blk(b)    == div(Slice(x.v, b * n, (b + 1) * n))
        self == [k |-> k, n |-> n, m |-> Len(x.v[1]), built |-> TRUE, nd |-> x.nd,
                 fM_1  |-> blk(0),
                 fM_2  |-> blk(1),
                 fN_j  |-> [i \in 1..k |-> blk(1 + i)],
                 fN_nj |-> [i \in 1..k |-> blk(1 + k + i)]]
    IN  IF Len(x.v) # 2 * n * (1 + k)
        THEN [err |-> "LoadedObjectiveLength", self |-> NoObjective,     \* line 472
              msg |-> [actual   |-> <<<<Len(x.v)>>>>,
                       expected |-> <<<<2 * n * (1 + k)>>>>]]
        ELSE IF x.nd = 1 /\ n > 1
        THEN [err |-> "ValueError", msg |-> NoMsg, self |-> NoObjective]
        ELSE [err |-> "", msg |-> NoMsg, self |-> Prune(self, NanRows(self))]

\* Objective.__init__, lines 297-305: vals is the objective_vals argument,
\* [type, x] with type "empty" (the default []), "bool" (a flag in the
\* argument's place) or "array"; hasSample and hasFunc tell whether sample
\* and objective_func were given.  The outcome [err, self, calls].
ObjectiveInit(k, n, hasSample, sample, hasFunc, f, vals) ==
    IF vals.type = "bool"
    THEN [err |-> "TypeError", msg |-> NoMsg, self |-> NoObjective, calls |-> <<>>]   \* len(bool)
    ELSE IF vals.type = "array" /\ Len(vals.x.v) > 0
    THEN LET r == ObjectiveLoad(k, n, vals.x, 1)
         IN  [err |-> r.err, msg |-> r.msg, self |-> r.self, calls |-> <<>>]
    ELSE IF ~hasSample
    THEN [err |-> "GenerateNeedsSample", msg |-> NoMsg, self |-> NoObjective, calls |-> <<>>]
    ELSE IF ~hasFunc
    THEN [err |-> "GenerateNeedsObjectiveFunc", msg |-> NoMsg, self |-> NoObjective,
          calls |-> <<>>]
    ELSE ObjectiveGenerate(k, n, sample, f)

\* ----------------------------------------------- Objective export and load
\* numpy.savetxt and numpy.loadtxt on objective values: the token of a value
\* holds the tokens of its numerator and denominator ("nan" and "inf" are
\* the tokens of the special values).
FormatVal(v) == [num |-> FormatNum(v[1]), den |-> FormatNum(v[2])]

ParseVal(t) == <<ParseNum(t.num), ParseNum(t.den)>>

SaveTxtVals(rows) == [r \in DOMAIN rows |-> [c \in DOMAIN rows[r] |-> FormatVal(rows[r][c])]]

LoadTxtVals(file) ==
    Squeeze([r \in DOMAIN file |-> [c \in DOMAIN file[r] |-> ParseVal(file[r][c])]])

\* Objective.flat, lines 357-391: fM_1; fM_2; fN_j[0..k-1]; fN_nj[0..k-1],
\* one row per sample point.  A 1-D objective gives a 1-D array, which
\* savetxt writes one value per line, as it writes a table of one column.
ObjectiveFlat(self) ==
    self.fM_1 \o self.fM_2 \o Flatten(self.fN_j) \o Flatten(self.fN_nj)

\* Objective.export, lines 393-413: as Sample.export, the files written
ObjectiveExportFiles(f, prefix, blocksize) ==
    LET bs     == IF blocksize > Len(f) THEN Len(f) ELSE blocksize
        nFiles == CeilDiv(Len(f), bs)
    IN  IF nFiles = 1
        THEN [name \in {FileName(prefix, 0)} |-> SaveTxtVals(f)]
        ELSE [name \in {FileName(prefix, b + 1) : b \in 0..(nFiles - 1)} |->
                 SaveTxtVals(Slice(f, (name[2] - 1) * bs, name[2] * bs))]

\* The shape of a loaded array: () for 0-d, (L) for 1-D, (rows, columns)
ArrayShape(a) ==
    IF a.nd = 0 THEN <<>>
    ELSE IF a.nd = 1 THEN <<Len(a.v[1])>>
    ELSE <<Len(a.v), Len(a.v[1])>>

\* Objective.load, lines 442-446: the arrays read from the files are stacked
\* with hstack when numpy.array(obj) has two dimensions and with vstack
\* otherwise.  numpy.array of arrays of one shape has one dimension more
\* than they have; of arrays of different lengths it is a 1-D array of
\* objects; arrays of equal length and different shapes, and a 0-d array
\* among longer ones, cannot be stacked by either call (ValueError).  The
\* outcome [err, x], x in the form Objective.load takes: nd = 1 with one
\* value per entry of v, nd = 2 with one row per entry.
ObjectiveStack(obj) ==
    LET same    == \A i, j \in DOMAIN obj : ArrayShape(obj[i]) = ArrayShape(obj[j])
        lengths == {IF obj[i].nd = 0 THEN 0 ELSE ArrayShape(obj[i])[1] : i \in DOMAIN obj}
        flat1   == Flatten([i \in DOMAIN obj |-> obj[i].v[1]])
        ok(x)   == [err |-> "", x |-> x]
        bad     == [err |-> "ValueError", x |-> [nd |-> 2, v |-> <<>>]]
    IN  IF same
        THEN IF obj[1].nd = 1
             THEN ok([nd |-> 1, v |-> [i \in DOMAIN flat1 |-> <<flat1[i]>>]])   \* hstack
             ELSE ok([nd |-> 2, v |-> VStack(obj)])
        ELSE IF Cardinality(lengths) = 1 \/ 0 \in lengths THEN bad
        ELSE IF VStackOk(obj) THEN ok([nd |-> 2, v |-> VStack(obj)])
        ELSE bad

\* Objective.load, lines 449-495, on the outcome st of the stacking
ObjectiveLoadStacked(k, n, st, scaling) ==
    IF st.err # "" THEN [err |-> st.err, msg |-> NoMsg, self |-> NoObjective]
    ELSE ObjectiveLoad(k, n, st.x, scaling)

\* Objective(k, n, loadFile=..., prefix=..., nFiles=..., offset=..., scaling=...):
\* Objective.__init__ line 299 and Objective.load, lines 419-446, reading
\* from the files on disk.  The outcome [err, msg, self].
ObjectiveLoadFiles(k, n, files, loadFile, prefix, nFiles, offset, scaling) ==
    IF loadFile = "" /\ prefix = ""
    THEN [err |-> "NeedLoadFileOrPrefix", msg |-> NoMsg, self |-> NoObjective]
    ELSE IF loadFile = "" /\ nFiles = 0
    THEN [err |-> "NeedNFiles", msg |-> NoMsg, self |-> NoObjective]
    ELSE IF \E i \in DOMAIN LoadFileList(loadFile, prefix, nFiles, offset) :
               LoadFileList(loadFile, prefix, nFiles, offset)[i] \notin DOMAIN files
    THEN [err |-> "CannotFindInputFile", msg |-> NoMsg, self |-> NoObjective]
    ELSE ObjectiveLoadStacked(k, n,
             ObjectiveStack([i \in DOMAIN LoadFileList(loadFile, prefix, nFiles, offset) |->
                 LoadTxtVals(files[LoadFileList(loadFile, prefix, nFiles, offset)[i]])]),
             scaling)

\* ------------------------------------------- examples/varsens_earm_cupsoda
\* The batch loop of the driver, lines 163-209, from batch number `batch`
\* (0-based) on: the simulations of a batch are the rows start..end-1 of the
\* flattened sample, and line 206 stores the value of simulation i of the
\* batch in obj_vals[i].  f stands for the simulation of a row followed by
\* objective_func.
RECURSIVE DriverBatches(_, _, _, _, _)
DriverBatches(obj_vals, sample_flat, f, max_sims_per_batch, batch) ==
    LET n_sims == Len(sample_flat)
        start  == batch * max_sims_per_batch
        end    == IF start + max_sims_per_batch < n_sims
                  THEN start + max_sims_per_batch ELSE n_sims
    IN  IF batch >= CeilDiv(n_sims, max_sims_per_batch) THEN obj_vals
        ELSE DriverBatches(
                 [r \in DOMAIN obj_vals |->
                     IF r <= end - start
                     THEN FEval(f, sample_flat[start + r], start + r).v
                     ELSE obj_vals[r]],
                 sample_flat, f, max_sims_per_batch, batch + 1)

\* lines 161-209: obj_vals = np.zeros((n_sims, len(obj_names))), then the
\* batches; max_sims_per_batch is 2*max_samples_per_batch*(1+k), line 142
DriverObjVals(sample_flat, k, f, max_samples_per_batch) ==
    DriverBatches([r \in DOMAIN sample_flat |-> [c \in 1..f.m |-> R(0)]],
                  sample_flat, f, 2 * max_samples_per_batch * (1 + k), 0)

\* ----------------------------------------------------------------- Varsens
NoVarsens ==
    [built |-> FALSE, k |-> 0, n |-> 0, E_2 |-> <<>>, var_y |-> <<>>,
     U_j |-> <<>>, U_nj |-> <<>>, sens |-> <<>>, sens_t |-> <<>>,
     sens_2 |-> <<>>, sens_2n |-> <<>>]

\* sum over the sample axis of a[i][c] * b[i][c]
DotColumn(a, b, c, d) == RSum([i \in DOMAIN a |-> RMul(a[i][c], b[i][d])])

\* numpy.var(values, ddof=1): the mean, then the sum of squared deviations
\* over max(N - 1, 0)
VarDdof1(xs) ==
    LET N    == Len(xs)
        mean == RDiv(RSum(xs), R(N))
        dev  == [i \in DOMAIN xs |-> RMul(RSub(xs[i], mean), RSub(xs[i], mean))]
    IN  RDiv(RSum(dev), R(IF N - 1 > 0 THEN N - 1 ELSE 0))

\* E_2 with the first component's value given for every component.  Not
\* what the code does.
E_2_OfFirst(obj, n) ==
    [c \in 1..obj.m |-> RDiv(DotColumn(obj.fM_1, obj.fM_2, 1, 1), R(n))]

\* Varsens.compute_varsens, line 577: E_2 per output component; the divisor
\* is self.n
E_2_Of(obj, n) ==
    [c \in 1..obj.m |-> RDiv(DotColumn(obj.fM_1, obj.fM_2, c, c), R(n))]

\* line 583
var_y_Of(obj) ==
    [c \in 1..obj.m |->
        VarDdof1([i \in DOMAIN obj.fM_1 |-> obj.fM_1[i][c]]
                  \o [i \in DOMAIN obj.fM_2 |-> obj.fM_2[i][c]])]

\* lines 591-596: the double estimator of a pair of families (F with fM_1,
\* G with fM_2), each sum divided by self.n - 1, the total halved
DoubleEstimate(obj, n, F, G) ==
    [p \in 1..obj.k |-> [c \in 1..obj.m |->
        RDiv(RAdd(RDiv(DotColumn(obj.fM_1, F[p], c, c), R(n - 1)),
                  RDiv(DotColumn(obj.fM_2, G[p], c, c), R(n - 1))),
             R(2))]]

\* The second-order table with one order of the two families counted twice
\* in place of both orders.  Not what the code does.
SecondOrderOneOrder(obj, n, F, G, E_2, var_y) ==
    [p \in 1..obj.k |-> [c \in 1..obj.m |-> [q \in 1..obj.k |-> [d \in 1..obj.m |->
        RDiv(RSub(RDiv(RAdd(DotColumn(F[p], G[q], c, d), DotColumn(F[p], G[q], c, d)),
                       R(2 * (n - 1))),
                  E_2[d]),
             var_y[d])]]]]

\* lines 612-622: tensordot over the sample axis of two families, both
\* orders added, over 2(n-1), minus E_2 and over var_y along the last axis
SecondOrder(obj, n, F, G, E_2, var_y) ==
    [p \in 1..obj.k |-> [c \in 1..obj.m |-> [q \in 1..obj.k |-> [d \in 1..obj.m |->
        RDiv(RSub(RDiv(RAdd(DotColumn(F[p], G[q], c, d), DotColumn(G[p], F[q], c, d)),
                       R(2 * (n - 1))),
                  E_2[d]),
             var_y[d])]]]]

\* Varsens.compute_varsens for the objective obj, with self.k = k, self.n = n
compute_varsens(obj, k, n) ==
    LET E_2   == E_2_Of(obj, n)
        var_y == var_y_Of(obj)
        U_j   == DoubleEstimate(obj, n, obj.fN_j, obj.fN_nj)
        U_nj  == DoubleEstimate(obj, n, obj.fN_nj, obj.fN_j)
    IN  [built |-> TRUE, k |-> k, n |-> n, E_2 |-> E_2, var_y |-> var_y,
         U_j |-> U_j, U_nj |-> U_nj,
         sens   |-> [p \in 1..k |-> [c \in 1..obj.m |->
                        RDiv(RSub(U_j[p][c], E_2[c]), var_y[c])]],
         sens_t |-> [p \in 1..k |-> [c \in 1..obj.m |->
                        RSub(R(1), RDiv(RSub(U_nj[p][c], E_2[c]), var_y[c]))]],
         sens_2  |-> SecondOrder(obj, n, obj.fN_nj, obj.fN_j, E_2, var_y),
         sens_2n |-> [p \in 1..k |-> [c \in 1..obj.m |-> [q \in 1..k |-> [d \in 1..obj.m |->
                        RDiv(RSub(RDiv(RAdd(DotColumn(obj.fN_nj[p], obj.fN_nj[q], c, d),
                                            DotColumn(obj.fN_j[p], obj.fN_j[q], c, d)),
                                       R(2 * (n - 1))),
                                  E_2[d]),
                             var_y[d])]]]]]

\* Varsens.__init__, lines 569-570, after the Objective was set: o is the
\* outcome [err, self, calls] of building it, smp the sample of the run
VarsensCompute(smp, o, k, n) ==
    IF o.err # ""
    THEN [err |-> o.err, msg |-> o.msg, sample |-> smp, objective |-> NoObjective,
          calls |-> o.calls, self |-> NoVarsens]
    ELSE [err |-> "", msg |-> NoMsg, sample |-> smp, objective |-> o.self, calls |-> o.calls,
          self |-> compute_varsens(o.self, k, n)]

\* Varsens.__init__, lines 547-555: self.sample.
\*   line 555: Sample(k, n, scaling_func, verbose) passes verbose in the
\*             place of discard, and int(True) = 1.
VarsensSample(scaling, k, n, hasSample, sample, verbose) ==
    IF hasSample THEN sample
    ELSE SampleInitGenerate(k, n, scaling, IF verbose THEN 1 ELSE 0, TRUE).self

\* Varsens.__init__, lines 561-570, with self.sample = smp (hasSmp: it is
\* set), self.k = sk and self.n = sn.
\*   line 567: Objective(self.k, self.n, self.sample, objective, verbose)
\*             passes verbose in the place of objective_vals.
VarsensRun(isObj, obj, f, hasSmp, smp, sk, sn) ==
    IF isObj
    THEN VarsensCompute(smp, [err |-> "", msg |-> NoMsg, self |-> obj, calls |-> <<>>],
                        obj.k, obj.n)
    ELSE VarsensCompute(smp, ObjectiveInit(sk, sn, hasSmp, smp, TRUE, f,
                                           [type |-> "bool", x |-> <<>>]), sk, sn)

\* Varsens.__init__, lines 545-570.  The arguments: objective is a function
\* f (isObj = FALSE) or the Objective obj (isObj = TRUE); scaling_func is
\* `scaling` ("none" for None); hasKN tells whether k and n were given;
\* hasSample whether sample is a Sample.  The outcome [err, sample,
\* objective, calls, self].
VarsensInit(isObj, obj, f, scaling, hasKN, k, n, hasSample, sample, verbose) ==
    IF hasSample
    THEN VarsensRun(isObj, obj, f, TRUE, sample, sample.k, sample.n)
    ELSE IF hasKN /\ scaling # "none"
    THEN VarsensRun(isObj, obj, f, TRUE,
                    VarsensSample(scaling, k, n, FALSE, sample, verbose), k, n)
    ELSE IF ~isObj
    THEN [err |-> "ValueError", msg |-> NoMsg, sample |-> NoSample, objective |-> NoObjective,
          calls |-> <<>>, self |-> NoVarsens]
    ELSE VarsensRun(TRUE, obj, f, FALSE, NoSample, 0, 0)

\* ------------------------------------------------------------- the inputs
\* Raw arrays and design files a caller may supply: seed 0 has pairwise
\* distinct entries, seed 1 repeats values.
RawSeeds == {0, 1}

RawArray(seed, rows, k) ==
    [r \in 1..rows |-> [c \in 1..k |->
        IF seed = 0 THEN 10 * (r - 1) + c + 1 ELSE (r + c) % 2]]

Discards == {0, 1}

\* Arrays of precomputed objective values a caller may pass as
\* objective_vals: seed 0 varies with row and component, seed 1 is constant;
\* bad = <<row, component, value>> puts one non-finite value in the table
\* (row 0: none).
ObjValue(seed, r, c) == IF seed = 0 THEN R((r * r + c) % 3) ELSE R(1)

ObjArray(seed, rows, m, nd, bad) ==
    [nd |-> nd,
     v  |-> [r \in 1..rows |-> [c \in 1..m |->
                IF bad[1] = r /\ bad[2] = c THEN bad[3] ELSE ObjValue(seed, r, c)]]]

BadCells(rows, m) ==
    {<<0, 0, NaN>>} \cup {<<r, c, x>> : r \in 1..rows, c \in 1..m, x \in {NaN, PosInf}}

\* the shape-changing kinds return a list of MaxM values on the first call
ObjectiveFunctions ==
    [kind : {"mod", "const", "nan"}, m : 0..MaxM] \cup [kind : {"shrink", "grow"}, m : {MaxM}]

\* --------------------------------------------------------------- the state
VARIABLES
    phase,   \* where the analysis run is: "new", "sampled", "exported", ...
    S,       \* the Sample of the run
    L,       \* the Sample loaded back from the exported files
    fs,      \* the files on disk: file name -> lines
    raw,     \* the caller's raw array, [before, after] Sample.__init__
    O,       \* the Objective of the run
    P,       \* the Objective loaded back from the exported files
    calls,   \* the rows objective_func was called with, in call order
    V,       \* the Varsens of the run
    last,    \* the last operation and its arguments
    err,     \* the exception the last operation raised, "" if none
    msg      \* the shapes the message of that exception reports

vars == <<phase, S, L, fs, raw, O, P, calls, V, last, err, msg>>

NoRaw == [before |-> <<>>, after |-> <<>>]

Call(op, k, n, scaling, verbose) ==
    [op |-> op, k |-> k, n |-> n, scaling |-> scaling, verbose |-> verbose,
     blocksize |-> 0, loadFile |-> "", nFiles |-> 0,
     f |-> [kind |-> "mod", m |-> 0], x |-> [nd |-> 2, v |-> <<>>]]

\* Before the run: no object is built, the disk is empty.
Init ==
    /\ phase = "new"
    /\ S = NoSample
    /\ L = NoSample
    /\ fs = NoFiles
    /\ raw = NoRaw
    /\ O = NoObjective
    /\ P = NoObjective
    /\ calls = <<>>
    /\ V = NoVarsens
    /\ last = Call("", 0, 0, "none", FALSE)
    /\ err = ""
    /\ msg = NoMsg

Finish(r, okPhase) ==
    /\ err' = r.err
    /\ msg' = r.msg
    /\ phase' = IF r.err = "" THEN okPhase ELSE "failed"

\* Sample(k, n, scaling, discard, verbose)
SampleGenerate(k, n, scaling, discard, verbose) ==
    /\ phase = "new"
    /\ \E r \in {SampleInitGenerate(k, n, scaling, discard, verbose)} :
          S' = r.self /\ Finish(r, "sampled")
    /\ last' = Call("SampleGenerate", k, n, scaling, verbose)
    /\ UNCHANGED <<L, fs, raw, O, calls, V, P>>

\* Sample(k, n, scaling, verbose=verbose, raw=x)
SampleFromRaw(k, n, scaling, verbose, x) ==
    /\ phase = "new"
    /\ \E r \in {SampleInitRaw(k, n, scaling, verbose, x)} :
          S' = r.self /\ Finish(r, "sampled")
    /\ raw' = [before |-> x, after |-> RawAfterInit(k, n, scaling, x)]
    /\ last' = Call("SampleFromRaw", k, n, scaling, verbose)
    /\ UNCHANGED <<L, fs, O, calls, V, P>>

\* Sample(k, n, scaling, verbose=verbose, raw=x) once more, with the
\* arguments of the construction of S: x is the caller's array as the first
\* construction left it.  S keeps the matrices it had when its constructor
\* returned.
SampleFromRawAgain ==
    /\ phase = "sampled" /\ last.op = "SampleFromRaw"
    /\ \E r \in {SampleInitRaw(S.k, S.n, last.scaling, S.verbose, raw.after)} :
          L' = r.self /\ Finish(r, "rebuilt")
    /\ raw' = [raw EXCEPT !.after = RawAfterInit(S.k, S.n, last.scaling, raw.after)]
    /\ last' = [last EXCEPT !.op = "SampleFromRawAgain"]
    /\ UNCHANGED <<S, fs, O, calls, V, P>>

\* Another tool (the quantlib generator of the package) writes a
\* pre-generated, unscaled design of shape (2*nn, kk) to the file "design".
DesignWritten(kk, nn) ==
    /\ phase = "new"
    /\ fs' = [name \in {FileName("design", 0)} |-> SaveTxt(RawArray(0, 2 * nn, kk))]
    /\ phase' = "design"
    /\ UNCHANGED <<S, L, raw, O, calls, V, last, err, msg, P>>

\* Sample(k, n, scaling, verbose=verbose, loadFile="design")
SampleFromDesign(k, n, scaling, verbose) ==
    /\ phase = "design"
    /\ \E r \in {SampleInitLoad(k, n, scaling, verbose, fs, "design", "", 0, 1)} :
          S' = r.self /\ Finish(r, "sampled")
    /\ last' = [Call("SampleFromDesign", k, n, scaling, verbose) EXCEPT !.loadFile = "design"]
    /\ UNCHANGED <<L, fs, raw, O, calls, V, P>>

\* S.export(prefix="sample", blocksize=blocksize)
SampleExport(blocksize) ==
    /\ phase = "sampled"
    /\ \E out \in {ExportFiles(SampleFlat(S), "sample", blocksize)} :
          fs' = [name \in DOMAIN fs \cup DOMAIN out |->
                    IF name \in DOMAIN out THEN out[name] ELSE fs[name]]
    /\ phase' = "exported"
    /\ last' = [Call("SampleExport", S.k, S.n, S.scaling, S.verbose)
                   EXCEPT !.blocksize = blocksize]
    /\ UNCHANGED <<S, L, raw, O, calls, V, err, msg, P>>

\* Sample(k, n, scaling, verbose=verbose, loadFile=..) or (prefix=.., nFiles=..)
\* after an export; last keeps the export's blocksize
SampleReload(k, n, scaling, loadFile, prefix, nFiles) ==
    /\ phase = "exported"
    /\ \E r \in {SampleInitLoad(k, n, scaling, S.verbose, fs, loadFile, prefix, nFiles, 1)} :
          L' = r.self /\ Finish(r, "loaded")
    /\ last' = [Call("SampleReload", k, n, scaling, S.verbose)
                   EXCEPT !.blocksize = last.blocksize,
                          !.loadFile = loadFile, !.nFiles = nFiles]
    /\ UNCHANGED <<S, fs, raw, O, calls, V, P>>

\* Objective(S.k, S.n, sample=S, objective_func=f)
ObjectiveFromSample(f) ==
    /\ phase = "sampled"
    /\ \E r \in {ObjectiveInit(S.k, S.n, TRUE, S, TRUE, f, [type |-> "empty", x |-> <<>>])} :
          O' = r.self /\ calls' = r.calls /\ Finish(r, "objective")
    /\ last' = [Call("ObjectiveFromSample", S.k, S.n, S.scaling, S.verbose) EXCEPT !.f = f]
    /\ UNCHANGED <<S, L, fs, raw, V, P>>

\* Objective(k, n, objective_vals=x)
ObjectiveFromArray(k, n, x) ==
    /\ phase = "new"
    /\ \E r \in {ObjectiveInit(k, n, FALSE, NoSample, FALSE, [kind |-> "mod", m |-> 0],
                                [type |-> "array", x |-> x])} :
          O' = r.self /\ calls' = r.calls /\ Finish(r, "objective")
    /\ last' = [Call("ObjectiveFromArray", k, n, "none", TRUE) EXCEPT !.x = x]
    /\ UNCHANGED <<S, L, fs, raw, V, P>>

\* O.export(prefix="objective", blocksize=blocksize)
ObjectiveExport(blocksize) ==
    /\ phase = "objective"
    /\ fs' = ObjectiveExportFiles(ObjectiveFlat(O), "objective", blocksize)
    /\ last' = [last EXCEPT !.op = "ObjectiveExport", !.blocksize = blocksize]
    /\ phase' = "objexported"
    /\ UNCHANGED <<S, L, raw, O, P, calls, V, err, msg>>

\* Objective(O.k, O.n, loadFile=loadFile, prefix=prefix, nFiles=nFiles)
ObjectiveReload(loadFile, prefix, nFiles) ==
    /\ phase = "objexported"
    /\ \E r \in {ObjectiveLoadFiles(O.k, O.n, fs, loadFile, prefix, nFiles, 1, 1)} :
          P' = r.self /\ Finish(r, "objloaded")
    /\ last' = [last EXCEPT !.op = "ObjectiveReload", !.loadFile = loadFile,
                            !.nFiles = nFiles]
    /\ UNCHANGED <<S, L, fs, raw, O, calls, V>>

\* The number of files the last objective export wrote
ObjectiveExportedCount == Cardinality({name \in DOMAIN fs : name[1] = "objective"})

\* The driver's pass for one sample size, lines 159-211, on the sample it
\* built at line 159: the batches, then Objective(k, n, objective_vals=obj_vals)
DriverObjective(f, max_samples_per_batch) ==
    /\ phase = "sampled"
    /\ S.source = "generated" /\ S.scaling = "lin" /\ S.burn = 20 * S.k /\ S.verbose
    /\ \E x \in {[nd |-> 2, v |-> DriverObjVals(SampleFlat(S), S.k, f, max_samples_per_batch)]} :
          /\ \E r \in {ObjectiveInit(S.k, S.n, FALSE, NoSample, FALSE, f,
                                      [type |-> "array", x |-> x])} :
                O' = r.self /\ Finish(r, "objective")
          /\ last' = [Call("DriverObjective", S.k, S.n, S.scaling, TRUE)
                         EXCEPT !.f = f, !.x = x, !.blocksize = max_samples_per_batch]
    /\ calls' = SampleFlat(S)
    /\ UNCHANGED <<S, L, fs, raw, V, P>>

\* Varsens(f, scaling, k, n, verbose=verbose)
VarsensFromFunction(f, scaling, k, n, verbose) ==
    /\ phase = "new"
    /\ \E r \in {VarsensInit(FALSE, NoObjective, f, scaling, TRUE, k, n, FALSE, NoSample, verbose)} :
          /\ S' = r.sample /\ O' = r.objective /\ calls' = r.calls /\ V' = r.self
          /\ Finish(r, "done")
    /\ last' = Call("VarsensFromFunction", k, n, scaling, verbose)
    /\ UNCHANGED <<L, fs, raw, P>>

\* Varsens(f, sample=S, verbose=verbose)
VarsensFromSample(f, verbose) ==
    /\ phase = "sampled"
    /\ \E r \in {VarsensInit(FALSE, NoObjective, f, "none", FALSE, 0, 0, TRUE, S, verbose)} :
          /\ O' = r.objective /\ calls' = r.calls /\ V' = r.self
          /\ Finish(r, "done")
    /\ last' = Call("VarsensFromSample", S.k, S.n, S.scaling, verbose)
    /\ UNCHANGED <<S, L, fs, raw, P>>

\* Varsens(O, verbose=verbose)
VarsensFromObjective(verbose) ==
    /\ phase = "objective"
    /\ \E r \in {VarsensInit(TRUE, O, [kind |-> "mod", m |-> 0], "none", FALSE, 0, 0,
                              FALSE, NoSample, verbose)} :
          V' = r.self /\ Finish(r, "done")
    /\ last' = Call("VarsensFromObjective", O.k, O.n, "none", verbose)
    /\ UNCHANGED <<S, L, fs, raw, O, calls, P>>

\* The number of files the last export wrote
ExportedCount == Cardinality({name \in DOMAIN fs : name[1] = "sample"})

\* The run.  verbose only switches printing on, so the raw and design
\* constructions take its default; a block size above the table's length
\* stands for every larger one, float("inf") included; a reload passes the
\* exported sample's (k, n) and names the single file, or the indexed files
\* with no count, the exported count, or a count one off; a non-finite value
\* is put in the varying array only, the constant array is passed whole.
Next ==
    \/ /\ phase = "new"
       /\ \E k \in 1..MaxK, n \in 1..MaxN, sc \in Scalings, d \in Discards, v \in BOOLEAN :
             SampleGenerate(k, n, sc, d, v)
    \/ /\ phase = "new"
       /\ \E k \in 1..MaxK, n \in 1..MaxN, sc \in Scalings, seed \in RawSeeds, extra \in 0..1 :
             SampleFromRaw(k, n, sc, TRUE, RawArray(seed, 2 * n + extra, k))
    \/ /\ phase = "sampled"
       /\ SampleFromRawAgain
    \/ /\ phase = "new"
       /\ \E kk \in 1..MaxK, nn \in 1..MaxN : DesignWritten(kk, nn)
    \/ /\ phase = "design"
       /\ \E k \in 1..MaxK, n \in 1..MaxN, sc \in Scalings : SampleFromDesign(k, n, sc, TRUE)
    \/ /\ phase = "sampled"
       /\ \E bs \in 1..(2 * S.n * (1 + S.k) + 1) : SampleExport(bs)
    \/ /\ phase = "exported"
       /\ \E sc \in {"none", "lin"} : SampleReload(S.k, S.n, sc, "sample", "", 0)
    \/ /\ phase = "exported"
       /\ \E sc \in {"none", "lin"},
             nf \in {0} \cup {c \in (ExportedCount - 1)..(ExportedCount + 1) : c > 0} :
             SampleReload(S.k, S.n, sc, "", "sample", nf)
    \/ /\ phase = "sampled"
       /\ \E f \in ObjectiveFunctions : ObjectiveFromSample(f)
    \/ /\ phase = "new"
       /\ \E k \in 1..MaxK, n \in 1..MaxN, m \in 1..MaxM, seed \in {0, 1}, extra \in 0..1 :
             \E bad \in (IF seed = 0 THEN BadCells(2 * n * (1 + k), m) ELSE {<<0, 0, NaN>>}),
                nd \in (IF m = 1 THEN {1, 2} ELSE {2}) :
                ObjectiveFromArray(k, n, ObjArray(seed, 2 * n * (1 + k) + extra, m, nd, bad))
    \/ /\ phase = "objective"
       /\ last.op = "ObjectiveFromSample" /\ S.source = "generated" /\ S.burn = 20 * S.k
       /\ S.verbose /\ S.scaling = "id"
       /\ \E bs \in 1..(2 * O.n * (1 + O.k) + 1) : ObjectiveExport(bs)
    \/ /\ phase = "objexported"
       /\ ObjectiveReload("objective", "", 0)
    \/ /\ phase = "objexported"
       /\ ObjectiveReload("", "objective", ObjectiveExportedCount)
    \/ /\ phase = "sampled"
       /\ \E f \in [kind : {"mod", "const", "nan"}, m : 1..MaxM], b \in 1..MaxN :
             DriverObjective(f, b)
    \/ /\ phase = "new"
       /\ \E f \in ObjectiveFunctions, sc \in Scalings, k \in 1..MaxK, n \in 1..MaxN,
             v \in BOOLEAN : VarsensFromFunction(f, sc, k, n, v)
    \/ /\ phase = "sampled"
       /\ \E f \in ObjectiveFunctions, v \in BOOLEAN : VarsensFromSample(f, v)
    \/ /\ phase = "objective"
       /\ VarsensFromObjective(TRUE)

Spec == Init /\ [][Next]_vars

\* ------------------------------------------------------------------ claims
\* Row r (1-based) of a flattened table of k-families with n rows each:
\* <<family, i, j>> as in EvalOrder, by index arithmetic
BlockOf(r, k, n) ==
    LET b == (r - 1) \div n
        j == ((r - 1) % n) + 1
    IN  IF b = 0 THEN <<1, 1, j>>
        ELSE IF b = 1 THEN <<2, 1, j>>
        ELSE IF b <= k + 1 THEN <<3, b - 1, j>>
        ELSE <<4, b - k - 1, j>>

\* C1: Varsens(f, scaling_func, k, n, verbose) builds the sample, calls f
\* exactly 2n(k+1) times and completes with its results set.
C1_VarsensFromFunctionCompletes ==
    (last.op = "VarsensFromFunction" /\ last.scaling # "none")
       => /\ err = ""
          /\ S.built
          /\ Len(calls) = 2 * last.n * (last.k + 1)
          /\ V.built

\* C2: in every Sample built by generation, from a raw array or from a
\* (2n,k) file, N_j[p] is M_2 with column p taken from M_1, and N_nj[p] is
\* M_1 with column p taken from M_2.
C2_ResampleColumns ==
    (S.built /\ S.source \in {"generated", "raw", "unscaled"}) =>
       /\ Len(S.N_j) = S.k /\ Len(S.N_nj) = S.k
       /\ \A p \in 1..S.k :
             /\ Len(S.N_j[p]) = S.n /\ Len(S.N_nj[p]) = S.n
             /\ \A r \in 1..S.n, c \in 1..S.k :
                   /\ S.N_j[p][r][c]  = (IF c = p THEN S.M_1[r][c] ELSE S.M_2[r][c])
                   /\ S.N_nj[p][r][c] = (IF c = p THEN S.M_2[r][c] ELSE S.M_1[r][c])

C2_Witness ==
    /\ S.built /\ S.source = "raw" /\ S.k >= 2 /\ S.n >= 2
    /\ S.N_j[1] # S.M_2 /\ S.N_nj[2] # S.M_1

\* flat() of smp has 2n(1+k) rows of k columns, and row r is the row of the
\* block that BlockOf names
FlatIsBlocks(smp) ==
    LET f == SampleFlat(smp)
    IN  /\ Len(f) = 2 * smp.n * (1 + smp.k)
        /\ \A r \in 1..Len(f) :
              /\ Len(f[r]) = smp.k
              /\ f[r] = SampleRow(smp, BlockOf(r, smp.k, smp.n))

\* C3: flat() has 2n(1+k) rows of k columns, the blocks M_1, M_2,
\* N_j[0..k-1], N_nj[0..k-1] in this order, each in its own row order.
C3_FlatBlocks == (S.built => FlatIsBlocks(S)) /\ (L.built => FlatIsBlocks(L))

C3_Witness ==
    /\ phase = "exported" /\ S.k >= 2 /\ S.n >= 2
    /\ S.N_j[1] # S.N_nj[1]

\* The last operation loaded what the export wrote: the single file by
\* loadFile, or the N > 1 indexed files by prefix and nFiles = N
MatchingReload ==
    /\ last.op = "SampleReload"
    /\ \/ ExportedCount = 1 /\ last.loadFile = "sample"
       \/ ExportedCount > 1 /\ last.loadFile = "" /\ last.nFiles = ExportedCount

\* C4: export followed by the matching load (the single file by loadFile,
\* or the N > 1 indexed files by prefix and nFiles = N) gives back a Sample
\* with the same M_1, M_2, N_j and N_nj.
C4_ExportLoadRoundTrip ==
    MatchingReload =>
       /\ err = ""
       /\ L.M_1 = S.M_1 /\ L.M_2 = S.M_2 /\ L.N_j = S.N_j /\ L.N_nj = S.N_nj

\* The last operation generated an Objective from S, and completed
Generated == last.op = "ObjectiveFromSample" /\ err = ""

\* The row of obj's tables that matches the sample row <<family, i, j>>
ObjectiveRow(obj, t) ==
    IF t[1] = 1 THEN obj.fM_1[t[3]]
    ELSE IF t[1] = 2 THEN obj.fM_2[t[3]]
    ELSE IF t[1] = 3 THEN obj.fN_j[t[2]][t[3]]
    ELSE obj.fN_nj[t[2]][t[3]]

\* C5: generating an Objective calls objective_func once per sample row, in
\* the order M_1, M_2, N_j[0..k-1], N_nj[0..k-1], each block in row order,
\* and the value of the call on row i of a matrix is stored at row i of the
\* matching output table.
C5_EvaluationOrder ==
    Generated =>
       /\ Len(calls) = 2 * S.n * (1 + S.k)
       /\ \A t \in 1..Len(calls) :
             /\ calls[t] = SampleRow(S, BlockOf(t, S.k, S.n))
             /\ ObjectiveRow(O, BlockOf(t, S.k, S.n))
                   = Stored(FEval(last.f, calls[t], t), O.m)

C5_Witness ==
    /\ Generated /\ S.k >= 2 /\ S.n >= 2 /\ O.m >= 2
    /\ last.f.kind = "mod"
    /\ O.fM_1 # O.fM_2 /\ O.fN_j[1] # O.fN_nj[1] /\ O.fN_j[1] # O.fN_j[2]

\* No value of the table is nan, +inf or -inf
AllFinite(rows) == \A i \in DOMAIN rows : \A c \in DOMAIN rows[i] : IsFinite(rows[i][c])

\* C6: once an Objective is built, by loading or by evaluating, none of its
\* tables holds a non-finite value in any output component.
C6_NoNonFiniteRemains ==
    O.built =>
       /\ AllFinite(O.fM_1) /\ AllFinite(O.fM_2)
       /\ \A p \in 1..O.k : AllFinite(O.fN_j[p]) /\ AllFinite(O.fN_nj[p])

\* The last operation loaded an Objective from the array last.x, and completed
Loaded == last.op = "ObjectiveFromArray" /\ err = ""

\* Block b (0-based) of n rows of the loaded array
InputBlock(b) == Slice(last.x.v, b * last.n, (b + 1) * last.n)

\* C7: nan pruning deletes the same sample indices from fM_1, fM_2 and every
\* fN_j[p] and fN_nj[p]: some set of kept indices gives all of them, so they
\* end with one row count and row i of each is the same sample.
C7_PruneKeepsAlignment ==
    Loaded =>
       \E kept \in SUBSET (1..last.n) :
          LET gone == (1..last.n) \ kept
          IN  /\ O.fM_1 = Delete(InputBlock(0), gone)
              /\ O.fM_2 = Delete(InputBlock(1), gone)
              /\ \A p \in 1..last.k :
                    /\ Len(O.fN_j[p]) = Cardinality(kept)
                    /\ Len(O.fN_nj[p]) = Cardinality(kept)
                    /\ O.fN_j[p]  = Delete(InputBlock(1 + p), gone)
                    /\ O.fN_nj[p] = Delete(InputBlock(1 + last.k + p), gone)

C7_Witness ==
    /\ Loaded /\ O.k >= 2 /\ O.n >= 2 /\ O.m >= 2
    /\ Len(O.fM_1) = O.n - 1
    /\ \E i \in 1..O.n : IsNaN(InputBlock(2)[i][1])

\* C8: E_2 is the mean of fM_1[i] * fM_2[i] over the n' rows that remain
\* after pruning: the sum of the products over n'.  Stated where n' >= 1.
C8_E2IsMeanOverRemaining ==
    (V.built /\ Len(O.fM_1) >= 1) =>
       \A c \in 1..O.m :
          V.E_2[c] = RDiv(DotColumn(O.fM_1, O.fM_2, c, c), R(Len(O.fM_1)))

\* (sum_i fM_1[i]*F[p][i] + sum_i fM_2[i]*G[p][i]) / (2(n' - 1)), n' the rows
\* of fM_1
MeanOfTwo(obj, F, G, p, c) ==
    RDiv(RAdd(DotColumn(obj.fM_1, F[p], c, c), DotColumn(obj.fM_2, G[p], c, c)),
         R(2 * (Len(obj.fM_1) - 1)))

\* C9: sens[p] = (U_j[p] - E_2) / var_y and sens_t[p] = 1 - (U_nj[p] - E_2)
\* / var_y with U_j[p] and U_nj[p] the two sums over 2(n' - 1), n' the rows
\* that remain after pruning.  Stated where n' >= 2, so that no sum is
\* divided by zero.
C9_IndicesOverRemaining ==
    (V.built /\ Len(O.fM_1) >= 2) =>
       \A p \in 1..O.k, c \in 1..O.m :
          /\ V.sens[p][c] =
                RDiv(RSub(MeanOfTwo(O, O.fN_j, O.fN_nj, p, c), V.E_2[c]), V.var_y[c])
          /\ V.sens_t[p][c] =
                RSub(R(1), RDiv(RSub(MeanOfTwo(O, O.fN_nj, O.fN_j, p, c), V.E_2[c]),
                                V.var_y[c]))

\* C10: when the pooled variance of some component is zero, the estimator
\* reports a numerical error and returns no indices.  Stated where nothing
\* was pruned and n >= 2, so that var_y is the only zero divisor.
C10_ZeroVarianceReported ==
    (/\ last.op = "VarsensFromObjective"
     /\ O.n >= 2 /\ Len(O.fM_1) = O.n
     /\ \E c \in 1..O.m : var_y_Of(O)[c] = R(0))
       => (err # "" /\ ~V.built)

\* The exceptions raised because an array has a shape that is not accepted.
ShapeErrors == {"RawSampleDimensions", "LoadedSampleShape", "LoadedObjectiveLength"}

\* C11: constructing a Sample from a loaded or raw array of a shape that is
\* not accepted, or an Objective from an array that does not have 2n(1+k)
\* rows, raises an error whose message reports both the expected and the
\* actual shape.  A message that gives only row counts (the objective's)
\* counts as reporting both.
C11_ShapeErrorsReportShapes ==
    (err \in ShapeErrors) => (msg.actual # <<>> /\ msg.expected # <<>>)

\* The shape <<rows, columns>> of a two-dimensional array
ShapeOf(x) == <<Len(x), IF Len(x) = 0 THEN 0 ELSE Len(x[1])>>

\* The last operation built a Sample on a path that needs scaling: it
\* generated the sample, or was given a raw array of shape (2n, k), or loaded
\* a file that holds an array of shape (2n, k).
NeedsScaling ==
    \/ last.op = "SampleGenerate"
    \/ last.op = "SampleFromRaw" /\ ShapeOf(raw.before) = <<2 * last.n, last.k>>
    \/ /\ last.op = "SampleFromDesign"
       /\ ShapeOf(VStack(<<LoadTxt(fs[FileName("design", 0)])>>)) = <<2 * last.n, last.k>>

\* C12: constructing a Sample without a scaling function fails with a
\* configuration error when generating a fresh sample, when given a raw
\* (2n, k) array, and when loading an unscaled (2n, k) file.
C12_ScalingRequired ==
    (NeedsScaling /\ last.scaling = "none") => (err # "" /\ ~S.built)

VectorFunctions == [kind : {"mod", "const", "nan"}, m : 1..MaxM]

\* The scalar objective x -> f(x)[c]
ComponentOf(f, c) == [kind |-> f.kind, m |-> f.m, comp |-> c]

\* What the estimator returns for the scalar objective x -> f(x)[c]
\* evaluated on the sample S
ScalarEstimate(f, c) ==
    compute_varsens(ObjectiveGenerate(S.k, S.n, S, ComponentOf(f, c)).self, S.k, S.n)

SameAsScalar(W, c) ==
    /\ V.E_2[c] = W.E_2[1]
    /\ V.var_y[c] = W.var_y[1]
    /\ \A p \in 1..S.k : V.sens[p][c] = W.sens[p][1] /\ V.sens_t[p][c] = W.sens_t[p][1]

RowPermutation(A, B) ==
    /\ Len(A) = Len(B)
    /\ \E p \in [1..Len(A) -> 1..Len(A)] :
          /\ \A i, j \in 1..Len(A) : p[i] = p[j] => i = j
          /\ \A i \in 1..Len(A) : A[i] = B[p[i]]

\* C15: built from a raw array, M1 is scaling(raw[0:n]) in the original row
\* order and M2 is a row permutation of scaling(raw[n:2n]); the permutation
\* comes from a generator reseeded with a fixed seed, so two constructions
\* from the same raw array give the same M2; the resample families are
\* derived from the shuffled M2.
C15_RawSampleShuffled ==
    (last.op \in {"SampleFromRaw", "SampleFromRawAgain"} /\ S.built) =>
       /\ S.M_1 = ApplyScaling(S.scaling, Slice(raw.before, 0, S.n))
       /\ RowPermutation(S.M_2, ApplyScaling(S.scaling, Slice(raw.before, S.n, 2 * S.n)))
       /\ S.N_j = generate_N_j(S.k, S.M_1, S.M_2)
       /\ S.N_nj = generate_N_j(S.k, S.M_2, S.M_1)
       /\ (last.op = "SampleFromRawAgain" => (L.built /\ L.M_2 = S.M_2))

\* Some call after the first returned a value whose length is not the length
\* of the first call's value
ShapeChanged ==
    \E t \in 2..Len(calls) :
       Len(FEval(last.f, calls[t], t).v) # Len(FEval(last.f, calls[1], 1).v)

\* C17: the output width m is fixed by the first call; if a later call
\* returns a value of a different shape (a scalar or a list of length 1 when
\* m > 1, or a list of another length), evaluation stops with a fatal shape
\* error and the value is never written into the tables.
C17_ShapeChangeIsFatal ==
    (last.op = "ObjectiveFromSample" /\ ShapeChanged) => (err # "" /\ ~O.built)

\* C18: the fresh Sample that Varsens builds from (k, n, scaling_func) is
\* built with discard = 0, so exactly 20k points are burned whatever the
\* value of verbose, and it receives the caller's verbose flag.
C18_FreshSampleArguments ==
    (last.op = "VarsensFromFunction" /\ S.built) =>
       (S.burn = 20 * S.k /\ S.verbose = last.verbose)

\* C19: in the batched driver the value computed for simulation i of a
\* batch is stored at absolute row start+i of obj_vals; so after the last
\* batch, for any number of batches, every row r of obj_vals holds the value
\* computed for row r of the flattened sample.
C19_BatchesScatterToAbsoluteRows ==
    (last.op = "DriverObjective") =>
       \A r \in 1..Len(SampleFlat(S)) :
          last.x.v[r] = FEval(last.f, SampleFlat(S)[r], r).v

\* The last operation loaded the exported objective files, all of them: the
\* one file by its name, or the numbered files by prefix and count
MatchingObjectiveReload ==
    /\ last.op = "ObjectiveReload"
    /\ \/ last.loadFile # "" /\ ObjectiveExportedCount = 1
       \/ last.loadFile = "" /\ ObjectiveExportedCount > 1

\* C20: for all k, n, every output width m >= 1 and every block size,
\* exporting an Objective whose values are all finite and loading the
\* exported file(s) with scaling divisor 1 yields an Objective whose fM_1,
\* fM_2, fN_j and fN_nj hold the same values at the same indices.
C20_ObjectiveRoundTrip ==
    (/\ MatchingObjectiveReload
     /\ AllFinite(ObjectiveFlat(O))) =>
       /\ err = ""
       /\ P.fM_1 = O.fM_1 /\ P.fM_2 = O.fM_2 /\ P.fN_j = O.fN_j /\ P.fN_nj = O.fN_nj

\* C21: constructing a Sample from a caller-supplied raw array leaves that
\* array unchanged, for every scaling function, the identity default used
\* when no scaling is given included.
C21_RawArrayUnchanged ==
    (last.op = "SampleFromRaw") => (raw.after = raw.before)

====
